---- MODULE Spec2Model ----
(***************************************************************************)
(* Model of the Merkle-Patricia trie of package merklepatriciatriev2       *)
(* (type MPT with a Storage backend): Get, Put, Del, Commit and Proof      *)
(* over the Branch / Extension / Leaf node model.                          *)
(*                                                                         *)
(* Go slices are modelled as views (arr, off, len) into backing arrays     *)
(* kept in `heap`, because put stores sub-slices of the nibble array in    *)
(* the nodes and hashNode builds its hash input with append(node.Key, ...).*)
(* The capacity of a slice runs to the end of its backing array.           *)
(*                                                                         *)
(* A byte cell is a pair <<D, x>>: <<NoDigest, b>> is the plain byte b,    *)
(* and <<D, i>> with D a digest is the i-th byte of that digest.  SHA-256  *)
(* is modelled as an injective function of its input: a digest is the      *)
(* 1-tuple holding the run-length encoding of the bytes hashed.  A digest  *)
(* byte is taken to differ from every key nibble and to exceed 15.         *)
(***************************************************************************)
EXTENDS Integers, Sequences, FiniteSets, TLC

VARIABLES
    root,      \* MPT.root: the live tree (NilNode when the trie is empty)
    heap,      \* backing arrays of the nibble slices kept in the nodes
    storage,   \* InMemoryStorage.data: set of <<key, value>> pairs
    m,         \* history: the logical key/value mapping the calls describe
    history,   \* "fresh": only Puts of new keys so far; "puts": only Puts; else "mixed"
    puts,      \* history: number of Put calls so far
    hashCalls, \* history: number of Commit and Proof calls so far
    last,      \* the last call that was not a Get, its arguments and result
    panicked   \* the process died in a runtime panic

vars == <<root, heap, storage, m, history, puts, hashCalls, last, panicked>>

----------------------------------------------------------------------------
(* Bounds and inputs *)

MaxPuts == 3        \* number of Put calls (each allocates one nibble array)
MaxHash == 1        \* number of Commit / Proof calls that hash nodes
LongPad == 16       \* zero bytes that pad the two long keys

HashLen == 32       \* bytes of a sha256 digest
NumChildren == 16   \* slots of a Branch

Zeros(n) == [i \in 1..n |-> 0]

KeyEmpty == <<>>
Key12 == <<18>>
KeyA == <<18, 52>> \o Zeros(LongPad)
KeyB == <<18, 53>> \o Zeros(LongPad)
Keys == {KeyEmpty, Key12, KeyA, KeyB}

Val1 == <<97>>
Val2 == <<98>>
Values == {Val1, Val2}

----------------------------------------------------------------------------
(* Bytes, slices and digests *)

NoDigest == <<>>
NilBytes == <<>>                \* a nil []byte; <<b>> is the non-nil slice b
PB(b) == <<NoDigest, b>>
IsHashCell(c) == c[1] /= NoDigest
Cells(bytes) == [i \in 1..Len(bytes) |-> PB(bytes[i])]

Cap(h, s) == Len(h[s.arr]) - s.off
At(h, s, i) == h[s.arr][s.off + i + 1]
Data(h, s) == [i \in 1..s.len |-> h[s.arr][s.off + i]]
From(s, a) == [arr |-> s.arr, off |-> s.off + a, len |-> s.len - a]
UpTo(s, b) == [arr |-> s.arr, off |-> s.off, len |-> b]

keyToNibbles(key) ==
    [i \in 1..(2 * Len(key)) |->
        IF i % 2 = 1 THEN PB(key[(i + 1) \div 2] \div 16)
                     ELSE PB(key[i \div 2] % 16)]

bytesEqual(h, a, b) ==
    /\ a.len = b.len
    /\ \A i \in 0..(a.len - 1) : At(h, a, i) = At(h, b, i)

hasPrefix(h, s, prefix) ==
    /\ s.len >= prefix.len
    /\ \A i \in 0..(prefix.len - 1) : At(h, s, i) = At(h, prefix, i)

(* The loop returns the first index at which a and b differ, or minLen. *)
commonPrefixLength(h, a, b) ==
    LET minLen == IF b.len < a.len THEN b.len ELSE a.len
    IN CHOOSE i \in 0..minLen :
          /\ i = minLen \/ At(h, a, i) /= At(h, b, i)
          /\ \A j \in 0..(i - 1) : At(h, a, j) = At(h, b, j)

(* Run-length encoding of a byte string: a chunk <<D, a, n>> is n copies  *)
(* of the plain byte a (D = NoDigest) or bytes a..a+n-1 of the digest D.  *)
ChunkCat(x, y) ==
    IF x = <<>> THEN y
    ELSE IF y = <<>> THEN x
    ELSE LET p == x[Len(x)]
             q == y[1]
         IN IF p[1] = q[1] /\ (IF p[1] = NoDigest THEN p[2] = q[2]
                                                   ELSE q[2] = p[2] + p[3])
            THEN SubSeq(x, 1, Len(x) - 1) \o <<<<p[1], p[2], p[3] + q[3]>>>>
                 \o Tail(y)
            ELSE x \o y

RECURSIVE Chunks(_)
Chunks(cells) ==
    IF Len(cells) = 0 THEN <<>>
    ELSE IF Len(cells) = 1 THEN <<<<cells[1][1], cells[1][2], 1>>>>
    ELSE LET half == Len(cells) \div 2
         IN ChunkCat(Chunks(SubSeq(cells, 1, half)),
                     Chunks(SubSeq(cells, half + 1, Len(cells))))

Sum256(chunks) == <<chunks>>
hashToSlice(d) == [i \in 1..HashLen |-> <<d, i>>]

----------------------------------------------------------------------------
(* Node model *)

NilNode == [Type |-> "Nil"]
PanicNode == [Type |-> "Panic"]     \* put did not return: index out of range
LeafNode(k, v) == [Type |-> "LeafNode", Key |-> k, Value |-> v]
ExtensionNode(k, n) == [Type |-> "ExtensionNode", Key |-> k, Next |-> n]
BranchNode(ch, v) == [Type |-> "BranchNode", Children |-> ch, Value |-> v]
NoChildren == [i \in 0..(NumChildren - 1) |-> NilNode]

ValBytes(v) == IF v = NilBytes THEN <<>> ELSE v[1]

----------------------------------------------------------------------------
(* Get *)

NotFound == [err |-> TRUE, val |-> NilBytes]

RECURSIVE get(_, _, _)
get(node, n, h) ==
    CASE node.Type = "Nil" -> NotFound
      [] node.Type = "BranchNode" ->
            IF n.len = 0 THEN [err |-> FALSE, val |-> node.Value]
            ELSE get(node.Children[At(h, n, 0)[2]], From(n, 1), h)
      [] node.Type = "ExtensionNode" ->
            IF ~hasPrefix(h, n, node.Key) THEN NotFound
            ELSE get(node.Next, From(n, node.Key.len), h)
      [] node.Type = "LeafNode" ->
            IF bytesEqual(h, n, node.Key)
            THEN [err |-> FALSE, val |-> node.Value]
            ELSE NotFound

(* The nibble array of a lookup is a fresh array behind the live ones. *)
WithKey(h, key) == Append(h, keyToNibbles(key))
KeySlice(h, key) == [arr |-> Len(h) + 1, off |-> 0, len |-> 2 * Len(key)]

Get(r, h, key) == get(r, KeySlice(h, key), WithKey(h, key))

----------------------------------------------------------------------------
(* Put *)

RECURSIVE put(_, _, _, _)
put(node, n, value, h) ==
    CASE node.Type = "Nil" -> LeafNode(n, value)
      [] node.Type = "BranchNode" ->
            IF n.len = 0 THEN [node EXCEPT !.Value = value]
            ELSE LET i == At(h, n, 0)[2]
                     c == put(node.Children[i], From(n, 1), value, h)
                 IN IF c.Type = "Panic" THEN PanicNode
                    ELSE [node EXCEPT !.Children[i] = c]
      [] node.Type = "ExtensionNode" ->
            LET prefix == node.Key
                cpl == commonPrefixLength(h, n, prefix)
            IN IF cpl = prefix.len
               THEN LET c == put(node.Next, From(n, cpl), value, h)
                    IN IF c.Type = "Panic" THEN PanicNode
                       ELSE [node EXCEPT !.Next = c]
               ELSE IF IsHashCell(At(h, prefix, cpl)) THEN PanicNode
               ELSE LET moved == [NoChildren EXCEPT ![At(h, prefix, cpl)[2]] = node.Next]
                        rest == From(n, cpl)
                        newBranch ==
                            IF rest.len = 0 THEN BranchNode(moved, value)
                            ELSE LET i == At(h, rest, 0)[2]
                                     c == put(moved[i], From(rest, 1), value, h)
                                 IN IF c.Type = "Panic" THEN PanicNode
                                    ELSE BranchNode([moved EXCEPT ![i] = c], NilBytes)
                    IN IF newBranch.Type = "Panic" THEN PanicNode
                       ELSE ExtensionNode(UpTo(prefix, cpl), newBranch)
      [] node.Type = "LeafNode" ->
            IF bytesEqual(h, n, node.Key) THEN [node EXCEPT !.Value = value]
            ELSE LET cpl == commonPrefixLength(h, n, node.Key)
                     oldHere == cpl = node.Key.len
                 IN IF ~oldHere /\ IsHashCell(At(h, node.Key, cpl)) THEN PanicNode
                    ELSE LET b1 == IF oldHere THEN BranchNode(NoChildren, node.Value)
                                   ELSE BranchNode(
                                       [NoChildren EXCEPT ![At(h, node.Key, cpl)[2]] =
                                           LeafNode(From(node.Key, cpl + 1), node.Value)],
                                       NilBytes)
                             b2 == IF cpl = n.len THEN [b1 EXCEPT !.Value = value]
                                   ELSE LET i == At(h, n, cpl)[2]
                                            c == put(b1.Children[i], From(n, cpl + 1), value, h)
                                        IN IF c.Type = "Panic" THEN PanicNode
                                           ELSE [b1 EXCEPT !.Children[i] = c]
                         IN IF b2.Type = "Panic" THEN PanicNode
                            ELSE IF cpl = 0 THEN b2
                            ELSE ExtensionNode(UpTo(n, cpl), b2)

----------------------------------------------------------------------------
(* Del *)

DelNotFound == [node |-> NilNode, err |-> TRUE]

(* On an error of the recursive call the code stores the nil result in   *)
(* the child slot (or in Next) before it tests err, and returns nil      *)
(* itself; the node it has just changed is reachable from nowhere.       *)
RECURSIVE del(_, _, _)
del(node, n, h) ==
    CASE node.Type = "Nil" -> DelNotFound
      [] node.Type = "BranchNode" ->
            IF n.len = 0 THEN [node |-> [node EXCEPT !.Value = NilBytes], err |-> FALSE]
            ELSE LET i == At(h, n, 0)[2]
                     r == del(node.Children[i], From(n, 1), h)
                 IN IF r.err THEN DelNotFound
                    ELSE [node |-> [node EXCEPT !.Children[i] = r.node], err |-> FALSE]
      [] node.Type = "ExtensionNode" ->
            IF ~hasPrefix(h, n, node.Key) THEN DelNotFound
            ELSE LET r == del(node.Next, From(n, node.Key.len), h)
                 IN IF r.err THEN DelNotFound
                    ELSE [node |-> [node EXCEPT !.Next = r.node], err |-> FALSE]
      [] node.Type = "LeafNode" ->
            IF bytesEqual(h, n, node.Key) THEN [node |-> NilNode, err |-> FALSE]
            ELSE DelNotFound

----------------------------------------------------------------------------
(* Commit / hashNode *)

(* append(s, extra...): when the capacity suffices the bytes are written  *)
(* into the backing array of s, behind its last element.                  *)
goAppend(h, s, extra) ==
    LET n == Len(extra)
        end == s.off + s.len
    IN [data |-> Data(h, s) \o extra,
        heap |-> IF n > 0 /\ s.len + n <= Cap(h, s)
                 THEN [h EXCEPT ![s.arr] =
                          [j \in 1..Len(@) |->
                              IF j > end /\ j <= end + n THEN extra[j - end] ELSE @[j]]]
                 ELSE h]

ZeroChunk(n) == IF n = 0 THEN <<>> ELSE <<<<NoDigest, 0, n>>>>

(* copy(hashes[i*32:(i+1)*32], src): at most HashLen bytes, the rest of  *)
(* the slot keeps the zero bytes of make.                                 *)
SlotOfHash(d) == IF d = NoDigest THEN ZeroChunk(HashLen) ELSE <<<<d, 1, HashLen>>>>
SlotOfValue(v) ==
    LET b == ValBytes(v)
        k == IF Len(b) < HashLen THEN Len(b) ELSE HashLen
    IN ChunkCat(Chunks(Cells(SubSeq(b, 1, k))), ZeroChunk(HashLen - k))

RECURSIVE hashNode(_, _)
RECURSIVE hashChildren(_, _, _, _)
(* The loop over the 16 slots; a nil child hashes to nil, copy copies    *)
(* nothing and the slot keeps its zero bytes, so runs of nil children    *)
(* are taken in one step.                                                *)
hashChildren(node, i, h, acc) ==
    LET live == {j \in i..(NumChildren - 1) : node.Children[j].Type /= "Nil"}
    IN IF live = {}
       THEN [chunks |-> ChunkCat(acc, ZeroChunk(HashLen * (NumChildren - i))), heap |-> h]
       ELSE LET j == CHOOSE x \in live : \A y \in live : x <= y
                r == hashNode(node.Children[j], h)
            IN hashChildren(node, j + 1, r.heap,
                            ChunkCat(ChunkCat(acc, ZeroChunk(HashLen * (j - i))),
                                     SlotOfHash(r.hash)))

hashNode(node, h) ==
    CASE node.Type = "Nil" -> [hash |-> NoDigest, heap |-> h]
      [] node.Type = "BranchNode" ->
            LET r == hashChildren(node, 0, h, <<>>)
            IN [hash |-> Sum256(ChunkCat(r.chunks, SlotOfValue(node.Value))),
                heap |-> r.heap]
      [] node.Type = "ExtensionNode" ->
            LET r == hashNode(node.Next, h)
                hashedNext == IF r.hash = NoDigest THEN <<>> ELSE hashToSlice(r.hash)
                combined == goAppend(r.heap, node.Key, hashedNext)
            IN [hash |-> Sum256(Chunks(combined.data)), heap |-> combined.heap]
      [] node.Type = "LeafNode" ->
            LET combined == goAppend(h, node.Key, Cells(ValBytes(node.Value)))
            IN [hash |-> Sum256(Chunks(combined.data)), heap |-> combined.heap]

(* A Put that is lost: the entry is written to a copy of the map. *)
StoragePutDropped(st, k, v) == st

StoragePut(st, k, v) == {e \in st : e[1] /= k} \cup {<<k, v>>}
StorageHas(st, k) == \E e \in st : e[1] = k

----------------------------------------------------------------------------
(* Proof *)

ProofNotFound(h) == [err |-> TRUE, proof |-> <<>>, heap |-> h]

RECURSIVE proofWalk(_, _, _, _)
proofWalk(node, n, h, proof) ==
    CASE node.Type = "Nil" -> ProofNotFound(h)
      [] node.Type = "BranchNode" ->
            IF n.len = 0 THEN [err |-> FALSE, proof |-> proof, heap |-> h]
            ELSE LET r == hashNode(node, h)
                 IN proofWalk(node.Children[At(r.heap, n, 0)[2]], From(n, 1),
                              r.heap, Append(proof, r.hash))
      [] node.Type = "ExtensionNode" ->
            IF ~hasPrefix(h, n, node.Key) THEN ProofNotFound(h)
            ELSE LET r == hashNode(node, h)
                 IN proofWalk(node.Next, From(n, node.Key.len),
                              r.heap, Append(proof, r.hash))
      [] node.Type = "LeafNode" ->
            IF bytesEqual(h, n, node.Key)
            THEN LET r == hashNode(node, h)
                 IN [err |-> FALSE, proof |-> Append(proof, r.hash), heap |-> r.heap]
            ELSE ProofNotFound(h)

ProofOf(r, h, key) ==
    LET w == proofWalk(r, KeySlice(h, key), WithKey(h, key), <<>>)
    IN [err |-> w.err, proof |-> w.proof, heap |-> SubSeq(w.heap, 1, Len(h))]

----------------------------------------------------------------------------
(* Memory: a backing array no node refers to is garbage; the collector   *)
(* frees it.  Live arrays keep their order of allocation.                *)

RECURSIVE Refs(_)
Refs(node) ==
    CASE node.Type = "BranchNode" ->
            UNION {Refs(node.Children[i]) : i \in 0..(NumChildren - 1)}
      [] node.Type = "ExtensionNode" -> {node.Key.arr} \cup Refs(node.Next)
      [] node.Type = "LeafNode" -> {node.Key.arr}
      [] OTHER -> {}

RECURSIVE Relocate(_, _)
Relocate(node, to) ==
    CASE node.Type = "BranchNode" ->
            [node EXCEPT !.Children = [i \in 0..(NumChildren - 1) |-> Relocate(@[i], to)]]
      [] node.Type = "ExtensionNode" ->
            [node EXCEPT !.Key.arr = to[@], !.Next = Relocate(@, to)]
      [] node.Type = "LeafNode" -> [node EXCEPT !.Key.arr = to[@]]
      [] OTHER -> node

Collect(r, h) ==
    LET live == Refs(r)
        to == [a \in live |-> Cardinality({b \in live : b <= a})]
    IN [root |-> Relocate(r, to),
        heap |-> [i \in 1..Cardinality(live) |-> h[CHOOSE a \in live : to[a] = i]]]

----------------------------------------------------------------------------
(* The trie as a state machine: one action per call of the iTrie interface *)

NoKey == <<>>
Absent == <<>>               \* m[k] = <<v>> when k maps to the bytes v

Init ==
    /\ root = NilNode
    /\ heap = <<>>
    /\ storage = {}
    /\ m = [k \in Keys |-> Absent]
    /\ history = "fresh"
    /\ puts = 0
    /\ hashCalls = 0
    /\ last = [op |-> "NewMPT", key |-> NoKey, value |-> NilBytes,
               err |-> FALSE, ret |-> <<>>]
    /\ panicked = FALSE

Result(op, key, value, err, ret) ==
    [op |-> op, key |-> key, value |-> value, err |-> err, ret |-> ret]

(* Get reads the tree and changes nothing; what it returns is the value *)
(* of Get(root, heap, key) in the state it is called in.                *)
GetCall(key) ==
    /\ ~panicked
    /\ Get(root, heap, key).err \in BOOLEAN
    /\ UNCHANGED vars

PutCall(key, value) ==
    /\ ~panicked
    /\ puts < MaxPuts
    /\ LET h == WithKey(heap, key)
           r == put(root, KeySlice(heap, key), <<value>>, h)
           gc == Collect(r, h)
       IN IF r.Type = "Panic"
          THEN /\ panicked' = TRUE
               /\ last' = Result("Put", key, <<value>>, TRUE, <<>>)
               /\ UNCHANGED <<root, heap, m, history>>
          ELSE /\ root' = gc.root
               /\ heap' = gc.heap
               /\ m' = [m EXCEPT ![key] = <<value>>]
               /\ history' = (IF history = "fresh" /\ m[key] /= Absent
                               THEN "puts" ELSE history)
               /\ last' = Result("Put", key, <<value>>, FALSE, <<>>)
               /\ UNCHANGED panicked
    /\ puts' = puts + 1
    /\ UNCHANGED <<storage, hashCalls>>

DelCall(key) ==
    /\ ~panicked
    /\ LET r == del(root, KeySlice(heap, key), WithKey(heap, key))
           gc == Collect(r.node, heap)
       IN /\ root' = gc.root
          /\ heap' = gc.heap
          /\ m' = IF r.err THEN m ELSE [m EXCEPT ![key] = Absent]
          /\ last' = Result("Del", key, NilBytes, r.err, <<>>)
    /\ history' = "mixed"
    /\ UNCHANGED <<storage, puts, hashCalls, panicked>>

CommitCall ==
    /\ ~panicked
    /\ hashCalls < MaxHash
    /\ IF root.Type = "Nil"
       THEN /\ last' = Result("Commit", NoKey, NilBytes, FALSE, NoDigest)
            /\ UNCHANGED <<heap, storage>>
       ELSE LET r == hashNode(root, heap)
            IN /\ heap' = r.heap
               /\ storage' = StoragePut(storage, r.hash, r.hash)
               /\ last' = Result("Commit", NoKey, NilBytes, FALSE, r.hash)
    /\ history' = "mixed"
    /\ hashCalls' = hashCalls + 1
    /\ UNCHANGED <<root, m, puts, panicked>>

ProofCall(key) ==
    /\ ~panicked
    /\ hashCalls < MaxHash
    /\ LET r == ProofOf(root, heap, key)
       IN /\ heap' = r.heap
          /\ last' = Result("Proof", key, NilBytes, r.err, r.proof)
    /\ history' = "mixed"
    /\ hashCalls' = hashCalls + 1
    /\ UNCHANGED <<root, storage, m, puts, panicked>>

Next ==
    \/ \E k \in Keys : GetCall(k)
    \/ \E k \in Keys, v \in Values : PutCall(k, v)
    \/ \E k \in Keys : DelCall(k)
    \/ CommitCall
    \/ \E k \in Keys : ProofCall(k)

Spec == Init /\ [][Next]_vars

----------------------------------------------------------------------------
(* What the claims speak about *)

(* The tree with every Key given by its bytes: node types, paths, child  *)
(* slots and values.                                                     *)
RECURSIVE Shape(_, _)
Shape(node, h) ==
    CASE node.Type = "BranchNode" ->
            [node EXCEPT !.Children = [i \in 0..(NumChildren - 1) |-> Shape(@[i], h)]]
      [] node.Type = "ExtensionNode" ->
            [node EXCEPT !.Key = Data(h, @), !.Next = Shape(@, h)]
      [] node.Type = "LeafNode" -> [node EXCEPT !.Key = Data(h, @)]
      [] OTHER -> node

Found(v) == [err |-> FALSE, val |-> v]

(* k is in the trie: the calls put it and Get finds the value put. *)
Present(r, h, k) == m[k] /= Absent /\ Get(r, h, k) = Found(m[k])

(* The hash Commit returns for the tree r. *)
RootHash(r, h) == hashNode(r, h).hash

(* The nodes Get visits for key, root first, the node that ends the walk last. *)
RECURSIVE walk(_, _, _)
walk(node, n, h) ==
    CASE node.Type = "BranchNode" ->
            IF n.len = 0 THEN <<node>>
            ELSE <<node>> \o walk(node.Children[At(h, n, 0)[2]], From(n, 1), h)
      [] node.Type = "ExtensionNode" ->
            IF ~hasPrefix(h, n, node.Key) THEN <<node>>
            ELSE <<node>> \o walk(node.Next, From(n, node.Key.len), h)
      [] node.Type = "LeafNode" -> <<node>>
      [] OTHER -> <<>>

Walk(r, h, key) == walk(r, KeySlice(h, key), WithKey(h, key))

IsDel == last'.op = "Del" /\ (root' /= root \/ m' /= m \/ last' /= last \/ history' /= history)
IsCommit == last'.op = "Commit" /\ hashCalls' = hashCalls + 1
IsProof == last'.op = "Proof" /\ hashCalls' = hashCalls + 1
IsPut == last'.op = "Put" /\ puts' = puts + 1

----------------------------------------------------------------------------
(* C1: after any sequence of Put calls on an empty trie, Get of every key *)
(* that was put returns, without error, the value of its last Put.        *)
C1_RoundTrip ==
    history /= "mixed" =>
        \A k \in Keys : m[k] /= Absent => Get(root, heap, k) = Found(m[k])

(* C2: a Del that returns an error leaves the trie as it was: the same    *)
(* nodes with the same bytes, and the same result of Get for every key.   *)
C2_FailedDelChangesNothing ==
    [][(IsDel /\ last'.err) =>
          /\ Shape(root', heap') = Shape(root, heap)
          /\ \A k \in Keys : Get(root', heap', k) = Get(root, heap, k)]_vars

(* C3: Del of a key that is in the trie returns no error, Get of that key *)
(* then fails, and Get of every other key returns what it did before.     *)
C3_DeletionComplete ==
    [][(IsDel /\ Present(root, heap, last'.key)) =>
          /\ ~last'.err
          /\ Get(root', heap', last'.key).err
          /\ \A k \in Keys \ {last'.key} : Get(root', heap', k) = Get(root, heap, k)]_vars

(* C4: Get returns an error for every key that is not in the logical      *)
(* mapping, also when the key's path ends at a Branch without a value.    *)
C4_GetFailsForAbsentKey ==
    \A k \in Keys : m[k] = Absent => Get(root, heap, k).err

(* C5: Del returns an error for every key that is not in the logical      *)
(* mapping (it returns no error only for keys that are present).          *)
C5_DelFailsForAbsentKey ==
    [][(IsDel /\ m[last'.key] = Absent) => last'.err]_vars

(* The trie that Put builds from the empty trie when the pairs of the    *)
(* mapping mm are inserted in the order given by the sequence order.     *)
RECURSIVE buildFrom(_, _, _, _)
buildFrom(order, mm, i, t) ==
    IF i > Len(order) THEN t
    ELSE IF mm[order[i]] = Absent THEN buildFrom(order, mm, i + 1, t)
    ELSE LET h == WithKey(t.heap, order[i])
             r == put(t.root, KeySlice(t.heap, order[i]), mm[order[i]], h)
         IN buildFrom(order, mm, i + 1, Collect(r, h))

Build(order, mm) == buildFrom(order, mm, 1, [root |-> NilNode, heap |-> <<>>])

Orders == {o \in [1..Cardinality(Keys) -> Keys] : \A i, j \in DOMAIN o : o[i] = o[j] => i = j}

(* C6: every order of the Put calls that insert one set of key/value     *)
(* pairs into an empty trie gives the same shape and the same root hash. *)
C6_CommitDeterminism ==
    history = "fresh" =>
        \A o \in Orders :
            LET t == Build(o, m)
            IN /\ Shape(t.root, t.heap) = Shape(root, heap)
               /\ RootHash(t.root, t.heap) = RootHash(root, heap)

(* C7: Commit and Proof leave the tree and the mapping as they were:     *)
(* every node keeps its Key and Value bytes, Get returns the same for    *)
(* every key, and a second Commit returns the hash the first returned.   *)
C7_CommitChangesNothing ==
    [][(IsCommit \/ IsProof) =>
          /\ Shape(root', heap') = Shape(root, heap)
          /\ \A k \in Keys : Get(root', heap', k) = Get(root, heap, k)
          /\ IsCommit => RootHash(root', heap') = last'.ret]_vars

(* C8: Proof(k) returns an error exactly when Get(k) returns an error.   *)
C8_ProofFailsAsGet ==
    [][IsProof => (last'.err <=> Get(root, heap, last'.key).err)]_vars

(* C9: a Proof that succeeds is not empty and has one entry per node     *)
(* visited from the root to the node that resolves the key, that node    *)
(* included, each entry the hash of its node, in visit order.            *)
C9_ProofListsVisitedNodes ==
    [][(IsProof /\ ~last'.err) =>
          LET w == Walk(root, heap, last'.key)
              proof == last'.ret
          IN /\ Len(proof) >= 1
             /\ Len(proof) = Len(w)
             /\ \A i \in 1..Len(w) : proof[i] = RootHash(w[i], heap)]_vars

----------------------------------------------------------------------------
(* Proof verification.  The source has no Verify; this is the replay of  *)
(* the hash chain the design describes, over the entries Proof returns   *)
(* (one digest per node) and the hash inputs hashNode builds.  It has    *)
(* the key, the value and the entries, and nothing of the live tree: an  *)
(* entry is accepted as a Leaf, an Extension or a Branch when its digest *)
(* is the one recomputed from the key's nibbles, the value and the next  *)
(* entry alone.                                                          *)

OnlyChild(i, d) ==
    ChunkCat(ChunkCat(ChunkCat(ZeroChunk(HashLen * i), SlotOfHash(d)),
                      ZeroChunk(HashLen * (NumChildren - 1 - i))),
             SlotOfValue(NilBytes))

NoChildBranch(value) == ChunkCat(ZeroChunk(HashLen * NumChildren), SlotOfValue(value))

RECURSIVE verifyFrom(_, _, _, _, _)
verifyFrom(proof, i, nib, pos, value) ==
    LET rest == SubSeq(nib, pos + 1, Len(nib))
    IN IF i = Len(proof)
       THEN \/ proof[i] = Sum256(Chunks(rest \o Cells(ValBytes(value))))
            \/ pos = Len(nib) /\ proof[i] = Sum256(NoChildBranch(value))
       ELSE \/ \E l \in 0..Len(rest) :
                  /\ proof[i] = Sum256(Chunks(SubSeq(rest, 1, l) \o hashToSlice(proof[i + 1])))
                  /\ verifyFrom(proof, i + 1, nib, pos + l, value)
            \/ /\ pos < Len(nib)
               /\ proof[i] = Sum256(OnlyChild(rest[1][2], proof[i + 1]))
               /\ verifyFrom(proof, i + 1, nib, pos + 1, value)

Verify(rootHash, key, value, proof) ==
    /\ proof /= <<>>
    /\ proof[1] = rootHash
    /\ verifyFrom(proof, 1, keyToNibbles(key), 0, value)

(* An entry a verifier was never given by Proof. *)
ForgedEntry == Sum256(<<<<NoDigest, 255, 1>>>>)

(* C10: for every key in the trie, Verify(Commit(), k, Get(k), Proof(k)) *)
(* accepts, and Verify rejects another value, a proof with one entry    *)
(* replaced, and the proof of another key.                               *)
C10_ProofSound ==
    \A k \in Keys :
        Present(root, heap, k) =>
            LET c == hashNode(root, heap)
                g == Get(root, c.heap, k)
                p == ProofOf(root, c.heap, k)
            IN /\ ~g.err /\ ~p.err
               /\ Verify(c.hash, k, g.val, p.proof)
               /\ \A v \in Values : <<v>> /= g.val => ~Verify(c.hash, k, <<v>>, p.proof)
               /\ \A i \in 1..Len(p.proof) :
                     ~Verify(c.hash, k, g.val, [p.proof EXCEPT ![i] = ForgedEntry])
               /\ \A k2 \in Keys \ {k} :
                     LET p2 == ProofOf(root, c.heap, k2)
                     IN ~p2.err => ~Verify(c.hash, k, g.val, p2.proof)

----------------------------------------------------------------------------
(* C11: Commit returns the nil hash whenever the trie holds no key: on a  *)
(* new MPT and after every key put has been deleted by a successful Del.  *)
C11_EmptyCommitIsNil ==
    [][(IsCommit /\ \A k \in Keys : m[k] = Absent) => last'.ret = NoDigest]_vars

(* The nodes reachable from a node, itself included. *)
RECURSIVE Nodes(_)
Nodes(node) ==
    CASE node.Type = "BranchNode" ->
            {node} \cup UNION {Nodes(node.Children[i]) : i \in 0..(NumChildren - 1)}
      [] node.Type = "ExtensionNode" -> {node} \cup Nodes(node.Next)
      [] node.Type = "LeafNode" -> {node}
      [] OTHER -> {}

(* The encoding of a node is the byte string hashNode hashes for it. *)
Encoding(d) == d[1]

(* C12: after Commit on a non-empty trie the storage holds, for every     *)
(* node reachable from the root, an entry whose key is the node's digest  *)
(* and whose value is the node's encoding.                                *)
C12_CommitPersistsEveryNode ==
    [][(IsCommit /\ root.Type /= "Nil") =>
          \A nd \in Nodes(root) :
              \E d \in {RootHash(nd, heap), RootHash(nd, heap')} :
                  <<d, Encoding(d)>> \in storage']_vars

----------------------------------------------------------------------------
(* Commit and the Storage collaborator.  What Commit stores does not     *)
(* depend on the values put; the calls below draw their keys from three  *)
(* keys that give a Leaf, a Branch holding a value, and an Extension     *)
(* whose Key shares its array with a Leaf's.                             *)

StoreKeys == {KeyEmpty, Key12, KeyA}
StoreValues == {Val1}

NextStorage ==
    \/ \E k \in StoreKeys : GetCall(k)
    \/ \E k \in StoreKeys, v \in StoreValues : PutCall(k, v)
    \/ \E k \in StoreKeys : DelCall(k)
    \/ CommitCall
    \/ \E k \in StoreKeys : ProofCall(k)

(* The MPT over an InMemoryStorage, whose Put always returns nil. *)
SpecStorage == Init /\ [][NextStorage]_vars

(* InMemoryStorage.Get(k) returns no error. *)
StorageGetOk(st, k) == StorageHas(st, k)

(* C13: the root key a Commit returned (not nil) is retrievable:         *)
(* Get(root key) on the trie's storage succeeds, after the Commit and    *)
(* after every later call.                                               *)
C13_RootKeyRetrievable ==
    (last.op = "Commit" /\ last.ret /= NoDigest) => StorageGetOk(storage, last.ret)

C13_Witness ==
    /\ last.op = "Commit"
    /\ last.ret /= NoDigest
    /\ root.Type = "ExtensionNode"
    /\ StorageGetOk(storage, last.ret)

(* Commit over a Storage whose Put returns an error (BadgerStorage.Put   *)
(* returns the error of db.Update): nothing is stored, Commit does not   *)
(* look at the error and returns the root hash.                          *)
CommitPutFails ==
    /\ ~panicked
    /\ hashCalls < MaxHash
    /\ root.Type /= "Nil"
    /\ LET r == hashNode(root, heap)
       IN /\ heap' = r.heap
          /\ last' = Result("Commit", NoKey, NilBytes, FALSE, r.hash)
    /\ history' = "mixed"
    /\ hashCalls' = hashCalls + 1
    /\ UNCHANGED <<root, storage, m, puts, panicked>>

NextStorageErr == NextStorage \/ CommitPutFails

(* The MPT over a Storage whose Put may fail. *)
SpecStorageErr == Init /\ [][NextStorageErr]_vars

(* C14: a Commit whose Storage.Put failed, so that the root is not in    *)
(* the storage afterwards, fails as a whole: it returns no root hash.    *)
C14_CommitFailsWhenPutFails ==
    [][(IsCommit /\ root.Type /= "Nil"
            /\ ~StorageGetOk(storage', RootHash(root, heap)))
          => last'.ret = NoDigest]_vars

----------------------------------------------------------------------------
(* The trie after one more Put(key, value) on the trie (r, h). *)
PutAgain(r, h, key, value) ==
    LET hh == WithKey(h, key)
        t == put(r, KeySlice(h, key), value, hh)
    IN IF t.Type = "Panic" THEN [root |-> t, heap |-> hh] ELSE Collect(t, hh)

(* C15: in any reachable trie, Put(k, v1) followed by Put(k, v2) makes   *)
(* Get(k) return v2, and Put(k, v) twice gives the shape that Put(k, v)  *)
(* once gives.                                                           *)
C15_OverwriteIdempotence ==
    [][IsPut =>
          /\ ~last'.err
          /\ \A v2 \in Values :
                LET t == PutAgain(root', heap', last'.key, <<v2>>)
                IN /\ t.root.Type /= "Panic"
                   /\ Get(t.root, t.heap, last'.key) = Found(<<v2>>)
                   /\ <<v2>> = last'.value =>
                         Shape(t.root, t.heap) = Shape(root', heap')]_vars

(* C20: in every reachable trie, after Put, Del (failed or not) and      *)
(* Commit calls, Put(k, v) returns and a Get(k) right after it returns v  *)
(* without error, for every key (the empty key too) and value.           *)
C20_ReadYourWrite ==
    [][IsPut =>
          /\ ~panicked'
          /\ Get(root', heap', last'.key) = Found(last'.value)]_vars

----------------------------------------------------------------------------
(* C16: after every Put and every Del no Extension reachable from the    *)
(* root has an empty shared path (a Key of length 0).                    *)
C16_NoEmptyExtension ==
    \A nd \in Nodes(root) : nd.Type = "ExtensionNode" => nd.Key.len > 0

NumLiveChildren(node) ==
    Cardinality({i \in 0..(NumChildren - 1) : node.Children[i].Type /= "Nil"})

(* C17: after every successful Del no reachable Branch is left with no   *)
(* value and fewer than two children, no Extension points at an empty    *)
(* subtree, and no Extension is followed by another Extension.           *)
C17_DelCollapses ==
    [][(IsDel /\ ~last'.err) =>
          \A nd \in Nodes(root') :
              /\ nd.Type = "BranchNode" =>
                    (nd.Value /= NilBytes \/ NumLiveChildren(nd) >= 2)
              /\ nd.Type = "ExtensionNode" =>
                    nd.Next.Type \notin {"Nil", "ExtensionNode"}]_vars

(* The trie after Put(key, value); Del(key) on the trie (r, h). *)
PutDel(r, h, key, value) ==
    LET t == PutAgain(r, h, key, value)
        d == del(t.root, KeySlice(t.heap, key), WithKey(t.heap, key))
    IN Collect(d.node, t.heap)

(* C18: under Put and Del the Commit hash depends on the mapping alone:  *)
(* a trie reached through Put and Del calls has the root hash of the     *)
(* trie that Puts alone build for its mapping, and for a key k not in    *)
(* the trie, Put(k, v); Del(k) restores the root hash.                   *)
C18_HashHistoryIndependent ==
    hashCalls = 0 =>
        /\ \A o \in Orders :
              LET t == Build(o, m)
              IN RootHash(t.root, t.heap) = RootHash(root, heap)
        /\ \A k \in Keys, v \in Values :
              (m[k] = Absent /\ Get(root, heap, k).err) =>
                  LET t == PutDel(root, heap, k, <<v>>)
                  IN RootHash(t.root, t.heap) = RootHash(root, heap)

----------------------------------------------------------------------------
(* Values a caller may put that spell the bytes hashNode would append    *)
(* for another node: the nibbles of a key in front of a value, and a     *)
(* value with a zero byte behind it.                                     *)
NibbleBytes(key) == [i \in 1..(2 * Len(key)) |-> keyToNibbles(key)[i][2]]
PathInValue == {NibbleBytes(k) \o v : k \in Keys \ {KeyEmpty}, v \in Values}
ZeroPadded(v) == v \o <<0>>

OnlyKey(k, v) == [x \in Keys |-> IF x = k THEN <<v>> ELSE Absent]

(* C19: the bytes hashNode hashes determine a node's path and value, so  *)
(* two tries that hold different mappings never have the same root hash: *)
(* not a trie and a trie of one Leaf with another (path, value), and not *)
(* two tries that differ in the value a Branch holds.                    *)
C19_HashInputUnambiguous ==
    /\ \A k \in Keys, v \in Values \cup PathInValue :
          OnlyKey(k, v) /= m =>
              \A o \in Orders :
                  LET t == Build(o, OnlyKey(k, v))
                      u == Build(o, m)
                  IN RootHash(t.root, t.heap) /= RootHash(u.root, u.heap)
    /\ \A k \in Keys :
          m[k] /= Absent =>
              \A o \in Orders :
                  LET t == Build(o, [m EXCEPT ![k] = <<ZeroPadded(m[k][1])>>])
                      u == Build(o, m)
                  IN RootHash(t.root, t.heap) /= RootHash(u.root, u.heap)

====
